---- MODULE Spec2Model ----
(***************************************************************************)
(* The resumable downloader of src/download.py: the operation counter      *)
(* persisted in counter.dat, the directory step (safemd), the download     *)
(* step (getfile) with its retry loop and IAGA-2002 rename, and the main   *)
(* program that loads the counter, runs the steps and removes the file.    *)
(* The environment kills the process at any point and starts it again.     *)
(***************************************************************************)
EXTENDS Integers, Sequences, FiniteSets, TLC

(* ------------------------------------------------------------------ *)
(* Bounds of the model                                                  *)
(* ------------------------------------------------------------------ *)

\* Processes started in one behaviour (the first run and its restarts).
MaxRuns == 3

\* counter.dat may initially hold any integer in -MaxSkew .. NSteps + MaxSkew.
MaxSkew == 1

\* The largest retry budget getfile is called with when the budget is varied.
MaxBudget == 2

(* ------------------------------------------------------------------ *)
(* Program constants                                                    *)
(* ------------------------------------------------------------------ *)

n_retries_default == 4

n_folders == 1

n_downloads == 90

\* Ordinals of the two live call sites of __main__.
SafemdOrdinal == 0

GetfileOrdinal == 1

\* The number of steps __main__ runs: safemd (0) and getfile (1).
NSteps == 2

\* Offset of the data type designator in a ' Data Type' header line.
DtOffset == 24

\* Length of the filename tail the designator is spliced in front of.
SuffixLen == 7

(* ------------------------------------------------------------------ *)
(* Text                                                                 *)
(* ------------------------------------------------------------------ *)

Digits == <<"0", "1", "2", "3", "4", "5", "6", "7", "8", "9">>

LowerCase ==
  <<"a", "b", "c", "d", "e", "f", "g", "h", "i", "j", "k", "l", "m",
    "n", "o", "p", "q", "r", "s", "t", "u", "v", "w", "x", "y", "z">>

UpperCase ==
  <<"A", "B", "C", "D", "E", "F", "G", "H", "I", "J", "K", "L", "M",
    "N", "O", "P", "Q", "R", "S", "T", "U", "V", "W", "X", "Y", "Z">>

Range(s) == {s[i] : i \in DOMAIN s}

IndexOf(s, c) == CHOOSE i \in DOMAIN s : s[i] = c

\* str.lower() on one character.
Lower(c) == IF c \in Range(UpperCase) THEN LowerCase[IndexOf(UpperCase, c)] ELSE c

\* str.isalpha() on one character.
IsAlpha(c) == c \in Range(LowerCase) \cup Range(UpperCase)

\* s[a:b] of Python for 0 <= a <= b (0-based, b excluded, clipped to the length).
Slice(s, a, b) ==
  LET hi == IF b < Len(s) THEN b ELSE Len(s)
  IN  IF a >= hi THEN <<>> ELSE SubSeq(s, a + 1, hi)

\* str.startswith, which is what re.search('^...') decides on one line.
StartsWith(s, p) == Len(s) >= Len(p) /\ SubSeq(s, 1, Len(p)) = p

\* '%d' % n for n >= 0.
RECURSIVE FormatNat(_)
FormatNat(n) ==
  IF n < 10 THEN <<Digits[n + 1]>>
  ELSE FormatNat(n \div 10) \o <<Digits[(n % 10) + 1]>>

\* '%d' % n
FormatInt(n) == IF n < 0 THEN <<"-">> \o FormatNat(0 - n) ELSE FormatNat(n)

RECURSIVE ParseNat(_)
ParseNat(s) ==
  IF Len(s) = 1 THEN IndexOf(Digits, s[1]) - 1
  ELSE 10 * ParseNat(SubSeq(s, 1, Len(s) - 1)) + (IndexOf(Digits, s[Len(s)]) - 1)

AllDigits(s) == Len(s) > 0 /\ \A i \in DOMAIN s : s[i] \in Range(Digits)

\* Whether int(text) returns: an optional sign followed by decimal digits
\* (any other text raises ValueError).
Parses(s) ==
  \/ AllDigits(s)
  \/ Len(s) > 1 /\ s[1] \in {"-", "+"} /\ AllDigits(Tail(s))

\* int(text) for a text that parses.
ParseInt(s) ==
  IF AllDigits(s) THEN ParseNat(s)
  ELSE IF s[1] = "-" THEN 0 - ParseNat(Tail(s))
  ELSE ParseNat(Tail(s))

(* ------------------------------------------------------------------ *)
(* Paths and file contents                                              *)
(* ------------------------------------------------------------------ *)

\* os.path.join('2017', 'PET')
folder == <<"2", "0", "1", "7", "/", "P", "E", "T">>

\* os.path.join('2017', 'PET', 'pet2017min.min')
local_file ==
  folder \o <<"/", "p", "e", "t", "2", "0", "1", "7", "m", "i", "n", ".", "m", "i", "n">>

\* The splice one character too far to the right.
NewLocalFileLate(path, d) ==
  Slice(path, 0, Len(path) - SuffixLen + 1) \o <<d>>
    \o Slice(path, Len(path) - SuffixLen + 1, Len(path))

\* local_file[:len(local_file) - 7] + dt + local_file[len(local_file) - 7:]
NewLocalFile(path, d) ==
  Slice(path, 0, Len(path) - SuffixLen) \o <<d>> \o Slice(path, Len(path) - SuffixLen, Len(path))

MarkerPrefix == <<" ", "D", "a", "t", "a", " ", "T", "y", "p", "e">>

Pad == [i \in 1 .. (DtOffset - Len(MarkerPrefix)) |-> " "]

\* A ' Data Type' header line with character c at the designator offset.
MarkerLine(c) == MarkerPrefix \o Pad \o <<c, "\n">>

\* A ' Data Type' line that ends before the designator offset.
ShortMarkerLine == MarkerPrefix

OtherLine == <<" ", "F", "o", "r", "m", "a", "t", "\n">>

\* A byte that is no text in the encoding open(local_file, 'r') decodes with.
BadByte == "0xFF"

\* A line that cannot be decoded.
BinaryLine == <<BadByte, "\n">>

\* The designator characters served: lower case, upper case, not alphabetic.
Designators == {"m", "D", "1"}

\* What the server may answer, a file as its sequence of lines: no marker line,
\* a lower-case and an upper-case designator, a designator that is no letter,
\* a marker line without designator, two marker lines, and a file that is no
\* text.
Contents ==
  { <<OtherLine>>,
    <<OtherLine, MarkerLine("m"), OtherLine>>,
    <<MarkerLine("D"), OtherLine>>,
    <<MarkerLine("1")>>,
    <<ShortMarkerLine>>,
    <<MarkerLine("m"), MarkerLine("1")>>,
    <<MarkerLine("1"), MarkerLine("D")>>,
    <<MarkerLine("m"), BinaryLine>> }

\* f.readlines() on the file decodes every line (line 134).
Decodable(content) == \A i \in DOMAIN content : BadByte \notin Range(content[i])

\* No file at a path.
NoFile == [kind |-> "absent"]

\* A file opened for writing whose copy did not finish.
PartialFile == [kind |-> "partial"]

\* A file holding the lines of one complete transfer.
FileOf(content) == [kind |-> "file", lines |-> content]

\* counter.dat present but not readable by the process (open raises OSError).
UnreadableFile == [kind |-> "unreadable"]

\* counter.dat holding a text.
TextFile(text) == [kind |-> "file", text |-> text]

None == "None"

\* Lines 132-142: the designator of the last ' Data Type' line, lower-cased, kept
\* only when it is alphabetic.
RECURSIVE LastDt(_, _)
LastDt(lines, acc) ==
  IF lines = <<>> THEN acc
  ELSE LET line == Head(lines)
           next == IF StartsWith(line, MarkerPrefix)
                   THEN LET ch == Slice(line, DtOffset, DtOffset + 1)
                        IN  IF ch = <<>> THEN "" ELSE Lower(ch[1])
                   ELSE acc
       IN  LastDt(Tail(lines), next)

\* The scan that keeps the last alphabetic designator it saw.
RECURSIVE LastAlphaDt(_, _)
LastAlphaDt(lines, acc) ==
  IF lines = <<>> THEN acc
  ELSE LET line == Head(lines)
           ch == Slice(line, DtOffset, DtOffset + 1)
           next == IF StartsWith(line, MarkerPrefix) /\ ch # <<>> /\ IsAlpha(ch[1])
                   THEN Lower(ch[1])
                   ELSE acc
       IN  LastAlphaDt(Tail(lines), next)

DataTypeSticky(content) == LastAlphaDt(content, None)

\* The scan that stops at the first ' Data Type' line.
DataTypeFirst(content) ==
  LET idx == {i \in DOMAIN content : StartsWith(content[i], MarkerPrefix)}
      d == IF idx = {} THEN None
           ELSE LastDt(<<content[CHOOSE i \in idx : \A j \in idx : i <= j]>>, None)
  IN  IF d = None \/ d = "" THEN None
      ELSE IF ~IsAlpha(d) THEN None
      ELSE d

DataType(content) ==
  LET d == LastDt(content, None)
  IN  IF d = None \/ d = "" THEN None
      ELSE IF ~IsAlpha(d) THEN None
      ELSE d

\* The paths the download step can touch.
Paths ==
  {local_file} \cup
  {NewLocalFile(local_file, Lower(c)) : c \in {x \in Designators : IsAlpha(x)}}

\* The directories os.makedirs(folder) creates.
FolderDirs == {Slice(folder, 0, 4), folder}

(* ------------------------------------------------------------------ *)
(* State                                                                *)
(* ------------------------------------------------------------------ *)

VARIABLES
  pc,          \* position of the process in download.py
  exitStatus,  \* the exit status, once pc = "exited"
  op_count,    \* the in-memory operation counter
  op_number,   \* the ordinal of the step being called
  n_retries,   \* getfile's remaining retry budget
  dt,          \* getfile's designator
  out,         \* the lines printed by the current run
  counterFile, \* counter.dat: NoFile or TextFile(text)
  dirs,        \* the directories that exist
  files,       \* Paths -> NoFile, PartialFile or FileOf(content)
  server,      \* the content the server answers with during one download
  runs,        \* processes started so far
  proxy_address, \* the configured proxy address (line 32)
  gin_username,  \* the configured user name (line 30)
  retry_budget,  \* the n_retries the main program passes to getfile (lines 33, 174)
  opener,        \* the handlers of the opener the process built last (lines 108-115)
  k_index_table, \* petki.py: the table read from k-index.txt
  K_DATA,        \* petki.py: the rows each class query selects
  dates,         \* petki.py: the dates of the rows of each class
  signal,        \* wt.py: the argument of dwt
  dwt_return,    \* wt.py: what the call of dwt gave
  \* History of the execution, read by the properties only.
  startCount,  \* the counter the current run loaded
  startOK,     \* the run started from k in 0..NSteps with the disk as k steps leave it
  touched,     \* ordinals of the steps that had an effect in the current run
  attempts,    \* transfer attempts of the current getfile execution
  envFail,     \* a read or rename of the downloaded file failed in the current run
  ran,         \* how often each step's work was started since the fresh start
  clean,       \* fresh start, and so far ended only between steps
  persisted,   \* the last integer counter.dat held since it was last absent
  pending,     \* the download step's first start, until the step is complete
  afterCompletion, \* the process before the current one completed the sequence
  step         \* the step execution last entered: the counter and the folder's
               \* existence at its entry, its calls of os.makedirs and of upd_op_co

prog == <<pc, exitStatus, op_count, op_number, n_retries, dt, out>>

disk == <<counterFile, dirs, files>>

\* The state of the analysis scripts petki.py and wt.py, which run apart from
\* the download.
analysis == <<k_index_table, K_DATA, dates, signal, dwt_return>>

world == <<server, runs, proxy_address, gin_username, retry_budget, opener, analysis>>

hist == <<startCount, startOK, touched, attempts, envFail, ran, clean, persisted, pending,
          afterCompletion, step>>

vars == <<prog, disk, world, hist>>

Steps == 0 .. (NSteps - 1)

\* The positions inside getfile before its call of upd_op_co.
DownloadPcs == {"remove", "opener", "loop", "fopen", "copy", "scan", "rm_new", "rename"}

\* The process is inside getfile and has not yet begun to write the counter.
InDownload == pc \in DownloadPcs \/ (pc = "upd_open" /\ op_number = GetfileOrdinal)

\* The positions at which no step is in progress.
BoundaryPcs == {"load", "safemd", "getfile", "finalize"}

Nothing == [some |-> FALSE]

Some(v) == [some |-> TRUE, val |-> v]

NoPending == [active |-> FALSE]

NoStep == [count |-> 0, had |-> FALSE, mk |-> 0, advances |-> 0]

\* The record of a step execution entered with counter c.
EnterStep(c) == [count |-> c, had |-> folder \in dirs, mk |-> 0, advances |-> 0]

\* The values the configurable parameters of lines 30-32 may be given.
ProxyAddresses == {"", "proxy:8080"}

UserNames == {"", "user"}

\* No table read, no query made, no call of dwt.
NoTable == <<>>

NoData == [none |-> TRUE]

AnalysisIdle ==
  /\ k_index_table = NoTable
  /\ K_DATA = NoData
  /\ dates = NoData
  /\ signal = <<>>
  /\ dwt_return = NoData

\* No opener has been built.
NoOpener == {}

\* Line 174: the URL of the download begins with https.
url_https == TRUE

\* The files one uninterrupted getfile leaves when it starts from files f and the
\* server answers content (lines 85-152, every file operation succeeding).
ApplyDownload(f, content) ==
  LET d == DataType(content)
  IN  IF d = None THEN [f EXCEPT ![local_file] = FileOf(content)]
      ELSE [f EXCEPT ![local_file] = NoFile,
                     ![NewLocalFile(local_file, d)] = FileOf(content)]

NoFiles == [p \in Paths |-> NoFile]

\* The directories and files the first k steps leave on an empty disk.
DirsAfter(k) == IF k >= 1 THEN FolderDirs ELSE {}

FilesAfter(k, content) == IF k >= 2 THEN ApplyDownload(NoFiles, content) ELSE NoFiles

\* What counter.dat may hold when the first process starts.
InitialCounterFiles ==
  {NoFile, UnreadableFile, TextFile(<<>>), TextFile(<<"x">>)} \cup
  {TextFile(FormatInt(k)) : k \in (0 - MaxSkew) .. (NSteps + MaxSkew)}

\* A load that never resumes.
LoadCountFresh(cf) == 0

\* The counter the main program loads (lines 161-166).
LoadCount(cf) ==
  IF cf = NoFile \/ cf = UnreadableFile THEN 0
  ELSE IF Parses(cf.text) THEN ParseInt(cf.text)
  ELSE 0

\* Whether the load prints the resuming message (line 164).
LoadResumes(cf) == cf # NoFile /\ cf # UnreadableFile /\ Parses(cf.text)

\* counter.dat holds the decimal text of an integer.
HasValue(cf) == cf # NoFile /\ cf # UnreadableFile /\ Parses(cf.text)

ValueOf(cf) == ParseInt(cf.text)

Init ==
  /\ pc = "load"
  /\ exitStatus = 0
  /\ op_count = 0
  /\ op_number = 0
  /\ n_retries = n_retries_default
  /\ dt = None
  /\ out = <<>>
  /\ counterFile \in InitialCounterFiles
  /\ dirs = {}
  /\ files = NoFiles
  /\ server \in Contents
  /\ runs = 1
  /\ proxy_address \in ProxyAddresses
  /\ gin_username \in UserNames
  /\ retry_budget = n_retries_default
  /\ opener = NoOpener
  /\ AnalysisIdle
  /\ startCount = 0
  /\ startOK = FALSE
  /\ touched = {}
  /\ attempts = 0
  /\ envFail = FALSE
  /\ ran = [i \in Steps |-> 0]
  /\ clean = (counterFile = NoFile)
  /\ persisted = IF HasValue(counterFile) THEN Some(ValueOf(counterFile)) ELSE Nothing
  /\ pending = NoPending
  /\ afterCompletion = FALSE
  /\ step = NoStep

(* ------------------------------------------------------------------ *)
(* Pure parts of the steps                                              *)
(* ------------------------------------------------------------------ *)

\* upd_op_co without its increment.
upd_op_co_same(c) == c

\* Line 41: the value upd_op_co computes, writes and returns.
upd_op_co(c) == c + 1

\* safemd with a strict comparison, and safemd without its guard.
safemd_guard_strict(number, count) == number > count

safemd_guard_always(number, count) == TRUE

\* Line 53: safemd does its work.
safemd_guard(number, count) == number >= count

\* getfile with a strict comparison, and getfile without its guard.
getfile_guard_strict(number, count) == number > count

getfile_guard_always(number, count) == TRUE

\* Line 80: getfile does its work.
getfile_guard(number, count) == number >= count

\* Line 82, printed with %d.
percent(number) == ((number - n_folders) * 100) \div n_downloads

\* The retry loop with an inclusive comparison.
retry_guard_inclusive(retries) == retries >= 0

\* Line 119: the retry loop goes round once more.
retry_guard(retries) == retries > 0

\* Lines 43-44: the text written to counter.dat.
counter_text(c) == FormatInt(c)

Msg(kind) == [msg |-> kind]

PercentMsg(v) == [msg |-> "percent", val |-> v]

(* ------------------------------------------------------------------ *)
(* The main program and the steps                                       *)
(* ------------------------------------------------------------------ *)

\* sys.exit with the status of a normal end.
fatal_status_success == 1 - 1

\* Lines 60, 92 and 129: the status given to sys.exit.
fatal_status == 1

\* The status of a process ended by an exception nobody caught.
traceback_status == 1

\* sys.exit(1) after an error message.
Fatal(message) ==
  /\ pc' = "exited"
  /\ exitStatus' = fatal_status
  /\ out' = Append(out, Msg(message))
  /\ clean' = FALSE

\* An exception no except clause names leaves the step and the main program:
\* the interpreter prints the traceback and ends the process.
Uncaught(exception) ==
  /\ pc' = "exited"
  /\ exitStatus' = traceback_status
  /\ out' = Append(out, [msg |-> "Traceback", exc |-> exception])
  /\ clean' = FALSE

\* Lines 161-166: read counter.dat.
Load ==
  /\ pc = "load"
  /\ op_count' = LoadCount(counterFile)
  /\ out' = IF LoadResumes(counterFile) THEN Append(out, Msg("resuming")) ELSE out
  /\ pc' = "safemd"
  /\ startCount' = op_count'
  /\ startOK' = /\ op_count' \in 0 .. NSteps
                /\ dirs = DirsAfter(op_count')
                /\ files = FilesAfter(op_count', server)
  /\ UNCHANGED <<exitStatus, op_number, n_retries, dt>>
  /\ UNCHANGED <<disk, world>>
  /\ UNCHANGED <<touched, attempts, envFail, ran, clean, persisted, pending, step,
               afterCompletion>>

\* Line 171 and lines 53-55: the call of safemd and its guard.
SafemdCall ==
  /\ pc = "safemd"
  /\ op_number' = SafemdOrdinal
  /\ IF safemd_guard(SafemdOrdinal, op_count)
     THEN /\ pc' = "makedirs"
          /\ out' = IF SafemdOrdinal = 0 THEN Append(out, Msg("Creating directories...")) ELSE out
          /\ ran' = [ran EXCEPT ![SafemdOrdinal] = @ + 1]
          /\ step' = EnterStep(op_count)
     ELSE /\ pc' = "getfile"
          /\ UNCHANGED <<out, ran, step>>
  /\ UNCHANGED <<exitStatus, op_count, n_retries, dt>>
  /\ UNCHANGED <<disk, world>>
  /\ UNCHANGED <<startCount, startOK, touched, attempts, envFail, clean, persisted, pending,
               afterCompletion>>

\* Line 57: os.makedirs(folder, exist_ok=True) returns.
MakedirsOk ==
  /\ pc = "makedirs"
  /\ dirs' = dirs \cup FolderDirs
  /\ touched' = touched \cup {op_number}
  /\ pc' = "upd_open"
  /\ step' = [step EXCEPT !.mk = @ + 1]
  /\ UNCHANGED <<exitStatus, op_count, op_number, n_retries, dt, out>>
  /\ UNCHANGED <<counterFile, files, world>>
  /\ UNCHANGED <<startCount, startOK, attempts, envFail, ran, clean, persisted, pending,
               afterCompletion>>

\* os.makedirs without exist_ok: an existing folder is an error as well.
makedirs_can_raise_strict(existing) == TRUE

\* Line 57: with exist_ok=True an existing folder is no error; any other
\* failure to create it is an OSError.
makedirs_can_raise(existing) == folder \notin existing

\* The handler that swallows the OSError and lets the step go on.
MakedirsFailIgnored ==
  /\ pc = "makedirs"
  /\ makedirs_can_raise(dirs)
  /\ pc' = "upd_open"
  /\ touched' = touched \cup {op_number}
  /\ step' = [step EXCEPT !.mk = @ + 1]
  /\ UNCHANGED <<exitStatus, op_count, op_number, n_retries, dt, out>>
  /\ UNCHANGED <<disk, world>>
  /\ UNCHANGED <<startCount, startOK, attempts, envFail, ran, clean, persisted, pending,
               afterCompletion>>

\* Lines 58-60: os.makedirs raises OSError.
MakedirsFail ==
  /\ pc = "makedirs"
  /\ makedirs_can_raise(dirs)
  /\ Fatal("Error: unable to create directory")
  /\ touched' = touched \cup {op_number}
  /\ step' = [step EXCEPT !.mk = @ + 1]
  /\ UNCHANGED <<op_count, op_number, n_retries, dt>>
  /\ UNCHANGED <<disk, world>>
  /\ UNCHANGED <<startCount, startOK, attempts, envFail, ran, persisted, pending,
               afterCompletion>>

\* Lines 41-42: the counter is incremented and counter.dat is opened for
\* writing, which truncates it.
UpdOpen ==
  /\ pc = "upd_open"
  /\ op_count' = upd_op_co(op_count)
  /\ counterFile' = TextFile(<<>>)
  /\ touched' = touched \cup {op_number}
  /\ pc' = "upd_write"
  /\ step' = [step EXCEPT !.advances = @ + 1]
  /\ UNCHANGED <<exitStatus, op_number, n_retries, dt, out>>
  /\ UNCHANGED <<dirs, files, world>>
  /\ UNCHANGED <<startCount, startOK, attempts, envFail, ran, clean, persisted, pending,
               afterCompletion>>

\* Lines 43-44: the text is written, the file closed and the counter returned
\* to the step, which returns it to the main program (the step's local
\* variables end with it).
UpdWrite ==
  /\ pc = "upd_write"
  /\ counterFile' = TextFile(counter_text(op_count))
  /\ persisted' = IF HasValue(counterFile') THEN Some(ValueOf(counterFile')) ELSE persisted
  /\ pc' = IF op_number = SafemdOrdinal THEN "getfile" ELSE "finalize"
  /\ n_retries' = n_retries_default
  /\ dt' = None
  /\ attempts' = 0
  /\ UNCHANGED <<exitStatus, op_count, op_number, out>>
  /\ UNCHANGED <<dirs, files, world>>
  /\ UNCHANGED <<startCount, startOK, touched, envFail, ran, clean, pending, step,
               afterCompletion>>

\* Line 174 and lines 80-83: the call of getfile, its guard and the progress line.
GetfileCall ==
  /\ pc = "getfile"
  /\ op_number' = GetfileOrdinal
  /\ n_retries' = retry_budget
  /\ IF getfile_guard(GetfileOrdinal, op_count)
     THEN /\ pc' = "remove"
          /\ out' = Append(out, PercentMsg(percent(GetfileOrdinal)))
          /\ ran' = [ran EXCEPT ![GetfileOrdinal] = @ + 1]
          /\ attempts' = 0
          /\ pending' = IF pending.active THEN pending
                        ELSE [active |-> TRUE, files0 |-> files, interrupted |-> "no"]
          /\ step' = EnterStep(op_count)
     ELSE /\ pc' = "finalize"
          /\ UNCHANGED <<out, ran, attempts, pending, step>>
  /\ UNCHANGED <<exitStatus, op_count, dt>>
  /\ UNCHANGED <<disk, world>>
  /\ UNCHANGED <<startCount, startOK, touched, envFail, clean, persisted,
               afterCompletion>>

\* The step without the removal of line 87.
RemoveStaleKept ==
  /\ pc = "remove"
  /\ touched' = touched \cup {op_number}
  /\ pc' = "opener"
  /\ UNCHANGED <<exitStatus, op_count, op_number, n_retries, dt, out>>
  /\ UNCHANGED <<disk, world>>
  /\ UNCHANGED <<startCount, startOK, attempts, envFail, ran, clean, persisted, pending, step,
               afterCompletion>>

\* Lines 86-89: os.remove(local_file) removes the file, or finds none.
RemoveStale ==
  /\ pc = "remove"
  /\ files' = [files EXCEPT ![local_file] = NoFile]
  /\ touched' = touched \cup {op_number}
  /\ pc' = "opener"
  /\ UNCHANGED <<exitStatus, op_count, op_number, n_retries, dt, out>>
  /\ UNCHANGED <<counterFile, dirs, world>>
  /\ UNCHANGED <<startCount, startOK, attempts, envFail, ran, clean, persisted, pending, step,
               afterCompletion>>

\* Lines 90-92: os.remove(local_file) raises another OSError.
RemoveFail ==
  /\ pc = "remove"
  /\ files[local_file] # NoFile
  /\ Fatal("Error: unable to remove file")
  /\ touched' = touched \cup {op_number}
  /\ UNCHANGED <<op_count, op_number, n_retries, dt>>
  /\ UNCHANGED <<disk, world>>
  /\ UNCHANGED <<startCount, startOK, attempts, envFail, ran, persisted, pending, step,
               afterCompletion>>

\* Lines 96-99: the handlers are built from the name req, which the module
\* never binds (line 16 imports request), whenever a proxy address or a user
\* name is configured.
opener_raises(proxy, user) == proxy # "" \/ user # ""

\* Lines 104-115: the handlers given to request.build_opener, for a proxy
\* handler and an authentication handler that were built or not. The third
\* branch repeats the test of the second and is never taken.
build_opener(proxy, auth) ==
  LET default_handler == IF url_https THEN "HTTPSHandler" ELSE "HTTPHandler"
  IN  IF auth /\ proxy THEN {"ProxyHandler", "HTTPBasicAuthHandler", default_handler}
      ELSE IF auth THEN {"HTTPBasicAuthHandler", default_handler}
      ELSE IF auth THEN {"ProxyHandler", default_handler}
      ELSE {default_handler}

\* Lines 95-115: the opener is built; without NameError neither handler was
\* asked for.
BuildOpener ==
  /\ pc = "opener"
  /\ ~opener_raises(proxy_address, gin_username)
  /\ opener' = build_opener(proxy_address # "", gin_username # "")
  /\ pc' = "loop"
  /\ UNCHANGED <<exitStatus, op_count, op_number, n_retries, dt, out>>
  /\ UNCHANGED <<disk, server, runs, proxy_address, gin_username, retry_budget, analysis>>
  /\ UNCHANGED hist

\* Lines 97 and 99: NameError, which nothing catches.
OpenerNameError ==
  /\ pc = "opener"
  /\ opener_raises(proxy_address, gin_username)
  /\ Uncaught("NameError")
  /\ UNCHANGED <<op_count, op_number, n_retries, dt>>
  /\ UNCHANGED <<disk, world>>
  /\ UNCHANGED <<startCount, startOK, touched, attempts, envFail, ran, persisted, pending, step,
               afterCompletion>>

\* Lines 125-126: an attempt failed.
AttemptFailed ==
  /\ n_retries' = n_retries - 1
  /\ pc' = "loop"

\* Lines 119-121: opener.open(url) raises URLError.
UrlOpenFail ==
  /\ pc = "loop"
  /\ retry_guard(n_retries)
  /\ AttemptFailed
  /\ attempts' = attempts + 1
  /\ touched' = touched \cup {op_number}
  /\ UNCHANGED <<exitStatus, op_count, op_number, dt, out>>
  /\ UNCHANGED <<disk, world>>
  /\ UNCHANGED <<startCount, startOK, envFail, ran, clean, persisted, pending, step,
               afterCompletion>>

\* Lines 119-121: opener.open(url) answers.
UrlOpenOk ==
  /\ pc = "loop"
  /\ retry_guard(n_retries)
  /\ pc' = "fopen"
  /\ attempts' = attempts + 1
  /\ touched' = touched \cup {op_number}
  /\ UNCHANGED <<exitStatus, op_count, op_number, n_retries, dt, out>>
  /\ UNCHANGED <<disk, world>>
  /\ UNCHANGED <<startCount, startOK, envFail, ran, clean, persisted, pending, step,
               afterCompletion>>

\* Line 122: open(local_file, 'wb') creates or truncates the file; it raises
\* OSError when the folder does not exist.
FOpen ==
  /\ pc = "fopen"
  /\ IF folder \in dirs
     THEN /\ files' = [files EXCEPT ![local_file] = PartialFile]
          /\ pc' = "copy"
          /\ UNCHANGED n_retries
     ELSE /\ AttemptFailed
          /\ UNCHANGED files
  /\ UNCHANGED <<exitStatus, op_count, op_number, dt, out>>
  /\ UNCHANGED <<counterFile, dirs, world>>
  /\ UNCHANGED hist

\* Lines 123-124: the copy finishes and the file is closed.
CopyOk ==
  /\ pc = "copy"
  /\ files' = [files EXCEPT ![local_file] = FileOf(server)]
  /\ pc' = "scan"
  /\ UNCHANGED <<exitStatus, op_count, op_number, n_retries, dt, out>>
  /\ UNCHANGED <<counterFile, dirs, world>>
  /\ UNCHANGED hist

\* Lines 123-126: the copy breaks off with an I/O error.
CopyFail ==
  /\ pc = "copy"
  /\ AttemptFailed
  /\ UNCHANGED <<exitStatus, op_count, op_number, dt, out>>
  /\ UNCHANGED <<disk, world>>
  /\ UNCHANGED hist

\* Lines 127-129: the retry budget is used up.
Exhausted ==
  /\ pc = "loop"
  /\ ~retry_guard(n_retries)
  /\ Fatal("Error: cannot download")
  /\ UNCHANGED <<op_count, op_number, n_retries, dt>>
  /\ UNCHANGED <<disk, world>>
  /\ UNCHANGED <<startCount, startOK, touched, attempts, envFail, ran, persisted, pending, step,
               afterCompletion>>

\* The step that advances the counter only after a rename.
ScanNoAdvance ==
  /\ pc = "scan"
  /\ Decodable(files[local_file].lines)
  /\ dt' = DataType(files[local_file].lines)
  /\ IF dt' # None
     THEN /\ pc' = "rm_new"
          /\ UNCHANGED out
     ELSE /\ pc' = "finalize"
          /\ out' = Append(out, Msg("Warning: unable to determine data type"))
  /\ UNCHANGED <<exitStatus, op_count, op_number, n_retries>>
  /\ UNCHANGED <<disk, world>>
  /\ UNCHANGED hist

\* The scan that treats a file without data type as a fatal error.
ScanFatal ==
  /\ pc = "scan"
  /\ Decodable(files[local_file].lines)
  /\ dt' = DataType(files[local_file].lines)
  /\ IF dt' # None
     THEN /\ pc' = "rm_new"
          /\ UNCHANGED <<exitStatus, out, clean>>
     ELSE Fatal("Warning: unable to determine data type")
  /\ UNCHANGED <<op_count, op_number, n_retries>>
  /\ UNCHANGED <<disk, world>>
  /\ UNCHANGED <<startCount, startOK, touched, attempts, envFail, ran, persisted, pending, step,
               afterCompletion>>

\* Lines 132-143 and 153-154: the downloaded file is read for its data type.
Scan ==
  /\ pc = "scan"
  /\ Decodable(files[local_file].lines)
  /\ dt' = DataType(files[local_file].lines)
  /\ IF dt' # None
     THEN /\ pc' = "rm_new"
          /\ UNCHANGED out
     ELSE /\ pc' = "upd_open"
          /\ out' = Append(out, Msg("Warning: unable to determine data type"))
  /\ UNCHANGED <<exitStatus, op_count, op_number, n_retries>>
  /\ UNCHANGED <<disk, world>>
  /\ UNCHANGED hist

\* Line 134: decoding the downloaded file raises UnicodeDecodeError, a
\* ValueError, which the except clause of line 138 does not name.
ScanDecodeError ==
  /\ pc = "scan"
  /\ ~Decodable(files[local_file].lines)
  /\ Uncaught("UnicodeDecodeError")
  /\ UNCHANGED <<op_count, op_number, n_retries, dt>>
  /\ UNCHANGED <<disk, world>>
  /\ UNCHANGED <<startCount, startOK, touched, attempts, envFail, ran, persisted, pending, step,
               afterCompletion>>

\* Lines 138-139 and 153-154: reading the downloaded file raises OSError.
ScanUnreadable ==
  /\ pc = "scan"
  /\ dt' = None
  /\ pc' = "upd_open"
  /\ out' = Append(out, Msg("Warning: unable to determine data type"))
  /\ envFail' = TRUE
  /\ UNCHANGED <<exitStatus, op_count, op_number, n_retries>>
  /\ UNCHANGED <<disk, world>>
  /\ UNCHANGED <<startCount, startOK, touched, attempts, ran, clean, persisted, pending, step,
               afterCompletion>>

\* Lines 145-148: os.remove(new_local_file) removes the file, or finds none.
RmNew ==
  /\ pc = "rm_new"
  /\ files' = [files EXCEPT ![NewLocalFile(local_file, dt)] = NoFile]
  /\ pc' = "rename"
  /\ UNCHANGED <<exitStatus, op_count, op_number, n_retries, dt, out>>
  /\ UNCHANGED <<counterFile, dirs, world>>
  /\ UNCHANGED hist

\* Lines 147-148: os.remove(new_local_file) raises OSError, which is ignored.
RmNewFail ==
  /\ pc = "rm_new"
  /\ files[NewLocalFile(local_file, dt)] # NoFile
  /\ pc' = "rename"
  /\ envFail' = TRUE
  /\ UNCHANGED <<exitStatus, op_count, op_number, n_retries, dt, out>>
  /\ UNCHANGED <<disk, world>>
  /\ UNCHANGED <<startCount, startOK, touched, attempts, ran, clean, persisted, pending, step,
               afterCompletion>>

\* Lines 149-150: os.rename(local_file, new_local_file) moves the file.
RenameOk ==
  /\ pc = "rename"
  /\ files' = [files EXCEPT ![NewLocalFile(local_file, dt)] = files[local_file],
                            ![local_file] = NoFile]
  /\ pc' = "upd_open"
  /\ UNCHANGED <<exitStatus, op_count, op_number, n_retries, dt, out>>
  /\ UNCHANGED <<counterFile, dirs, world>>
  /\ UNCHANGED hist

\* Lines 151-152: os.rename raises OSError.
RenameFail ==
  /\ pc = "rename"
  /\ pc' = "upd_open"
  /\ out' = Append(out, Msg("Warning: unable to rename"))
  /\ envFail' = TRUE
  /\ UNCHANGED <<exitStatus, op_count, op_number, n_retries, dt>>
  /\ UNCHANGED <<disk, world>>
  /\ UNCHANGED <<startCount, startOK, touched, attempts, ran, clean, persisted, pending, step,
               afterCompletion>>

\* The end of the program without the removal of line 361.
FinalizeKept ==
  /\ pc = "finalize"
  /\ out' = Append(out, Msg("100% - data download complete"))
  /\ pc' = "exited"
  /\ exitStatus' = 0
  /\ UNCHANGED <<op_count, op_number, n_retries, dt>>
  /\ UNCHANGED <<disk, world>>
  /\ UNCHANGED <<startCount, startOK, touched, attempts, envFail, ran, clean, persisted, pending, step,
               afterCompletion>>

\* Lines 359-361: the completion line, os.remove('counter.dat') and the end of
\* the program; with no counter.dat the removal raises and the program ends
\* with a traceback.
Finalize ==
  /\ pc = "finalize"
  /\ out' = Append(out, Msg("100% - data download complete"))
  /\ pc' = "exited"
  /\ IF counterFile = NoFile
     THEN /\ exitStatus' = 1
          /\ UNCHANGED <<counterFile, persisted>>
     ELSE /\ exitStatus' = 0
          /\ counterFile' = NoFile
          /\ persisted' = Nothing
  /\ UNCHANGED <<op_count, op_number, n_retries, dt>>
  /\ UNCHANGED <<dirs, files, world>>
  /\ UNCHANGED <<startCount, startOK, touched, attempts, envFail, ran, clean, pending, step,
               afterCompletion>>

(* ------------------------------------------------------------------ *)
(* The environment                                                      *)
(* ------------------------------------------------------------------ *)

Running == pc \notin {"exited", "killed"}

\* The process is killed (not trapped: no handler runs) and its memory is gone.
Kill ==
  /\ Running
  /\ pc' = "killed"
  /\ op_count' = 0
  /\ op_number' = 0
  /\ n_retries' = n_retries_default
  /\ dt' = None
  /\ attempts' = 0
  /\ clean' = (clean /\ pc \in BoundaryPcs)
  /\ pending' = IF pending.active /\ InDownload
                THEN [pending EXCEPT !.interrupted = pc]
                ELSE pending
  /\ step' = NoStep
  /\ opener' = NoOpener
  /\ UNCHANGED <<exitStatus, out>>
  /\ UNCHANGED <<disk, server, runs, proxy_address, gin_username, retry_budget, analysis>>
  /\ UNCHANGED <<startCount, startOK, touched, envFail, ran, persisted,
               afterCompletion>>

\* The operator starts the script again in the same directory. After a completed
\* download the server may have published other content.
Start ==
  /\ ~Running
  /\ runs < MaxRuns
  /\ runs' = runs + 1
  /\ pc' = "load"
  /\ exitStatus' = 0
  /\ op_count' = 0
  /\ op_number' = 0
  /\ n_retries' = n_retries_default
  /\ dt' = None
  /\ out' = <<>>
  /\ startCount' = 0
  /\ startOK' = FALSE
  /\ touched' = {}
  /\ attempts' = 0
  /\ envFail' = FALSE
  /\ IF pc = "exited" /\ exitStatus = 0
     THEN /\ ran' = [i \in Steps |-> 0]
          /\ clean' = TRUE
          /\ pending' = NoPending
          /\ server' \in Contents
     ELSE UNCHANGED <<ran, clean, pending, server>>
  /\ step' = NoStep
  /\ afterCompletion' = (pc = "exited" /\ exitStatus = 0)
  /\ opener' = NoOpener
  /\ UNCHANGED <<disk, persisted, proxy_address, gin_username, retry_budget, analysis>>

Next ==
  \/ Load
  \/ SafemdCall
  \/ MakedirsOk
  \/ MakedirsFail
  \/ UpdOpen
  \/ UpdWrite
  \/ GetfileCall
  \/ RemoveStale
  \/ RemoveFail
  \/ BuildOpener
  \/ OpenerNameError
  \/ UrlOpenFail
  \/ UrlOpenOk
  \/ FOpen
  \/ CopyOk
  \/ CopyFail
  \/ Exhausted
  \/ Scan
  \/ ScanDecodeError
  \/ ScanUnreadable
  \/ RmNew
  \/ RmNewFail
  \/ RenameOk
  \/ RenameFail
  \/ Finalize
  \/ Kill
  \/ Start

Spec == Init /\ [][Next]_vars

\* The retry budgets getfile is called with when the budget is varied
\* (n_retries is a configurable parameter, line 33, and a parameter of getfile,
\* line 77): negative, zero and positive.
Budgets == (0 - 1) .. MaxBudget

\* The first run on an empty directory, with any of the budgets.
InitRetry ==
  /\ pc = "load"
  /\ exitStatus = 0
  /\ op_count = 0
  /\ op_number = 0
  /\ n_retries = n_retries_default
  /\ dt = None
  /\ out = <<>>
  /\ counterFile = NoFile
  /\ dirs = {}
  /\ files = NoFiles
  /\ server \in Contents
  /\ runs = 1
  /\ proxy_address \in ProxyAddresses
  /\ gin_username = ""
  /\ retry_budget \in Budgets
  /\ opener = NoOpener
  /\ AnalysisIdle
  /\ startCount = 0
  /\ startOK = FALSE
  /\ touched = {}
  /\ attempts = 0
  /\ envFail = FALSE
  /\ ran = [i \in Steps |-> 0]
  /\ clean = TRUE
  /\ persisted = Nothing
  /\ pending = NoPending
  /\ afterCompletion = FALSE
  /\ step = NoStep

SpecRetry == InitRetry /\ [][Next]_vars

\* The destination paths the splice is applied to when it is taken alone: the
\* path of the download and its endings of at least SuffixLen characters.
SplicePaths ==
  {Slice(local_file, k, Len(local_file)) : k \in 0 .. (Len(local_file) - SuffixLen)}

\* The characters str.isalpha() accepts.
Letters == Range(LowerCase) \cup Range(UpperCase)

\* getfile at its rename, before it is given a destination and a marker line.
InitSplice ==
  /\ pc = "splice"
  /\ exitStatus = 0
  /\ op_count = 0
  /\ op_number = GetfileOrdinal
  /\ n_retries = n_retries_default
  /\ dt = None
  /\ out = <<>>
  /\ counterFile = NoFile
  /\ dirs = FolderDirs
  /\ files = NoFiles
  /\ server = <<OtherLine>>
  /\ runs = 1
  /\ proxy_address = ""
  /\ gin_username = ""
  /\ retry_budget = n_retries_default
  /\ opener = NoOpener
  /\ AnalysisIdle
  /\ startCount = 0
  /\ startOK = FALSE
  /\ touched = {}
  /\ attempts = 0
  /\ envFail = FALSE
  /\ ran = [i \in Steps |-> 0]
  /\ clean = TRUE
  /\ persisted = Nothing
  /\ pending = NoPending
  /\ afterCompletion = FALSE
  /\ step = NoStep

\* Lines 137-144 for a destination path and the character at the designator
\* offset of a marker line: the designator is lower-cased and spliced in.
Splice ==
  /\ pc = "splice"
  /\ \E path \in SplicePaths, c \in Letters :
       /\ dt' = Lower(c)
       /\ step' = [local_file |-> path, designator |-> c,
                   new_local_file |-> NewLocalFile(path, dt')]
  /\ UNCHANGED <<pc, exitStatus, op_count, op_number, n_retries, out>>
  /\ UNCHANGED <<disk, world>>
  /\ UNCHANGED <<startCount, startOK, touched, attempts, envFail, ran, clean, persisted, pending,
               afterCompletion>>

SpecSplice == InitSplice /\ [][Splice]_vars

(* ------------------------------------------------------------------ *)
(* Properties                                                           *)
(* ------------------------------------------------------------------ *)

Max(a, b) == IF a >= b THEN a ELSE b

LastOut == out[Len(out)]

Completed == pc = "exited" /\ exitStatus = 0

\* The steps in front of a position between steps.
StepsBefore(p) == CASE p = "safemd" -> 0 [] p = "getfile" -> 1 [] p = "finalize" -> 2

\* C1. Idempotent resume: a run that loaded k in 0..NSteps from counter.dat
\* with the disk as the first k steps leave it ends, when it completes and no
\* file operation on the download failed, with the directories and files of a
\* fresh uninterrupted run (the case k = 0) and without counter.dat; and no
\* run has an effect (directory creation, removal, transfer attempt, counter
\* write) for a step below the counter it loaded.
C1_IdempotentResume ==
  /\ \A i \in touched : i >= startCount
  /\ (Completed /\ startOK /\ ~envFail) =>
       /\ dirs = DirsAfter(NSteps)
       /\ files = FilesAfter(NSteps, server)
       /\ counterFile = NoFile

\* A run resumed at 1 completed, having executed the download step only.
C1_Witness ==
  /\ Completed /\ startOK /\ ~envFail
  /\ startCount = 1
  /\ touched = {GetfileOrdinal}
  /\ DataType(server) # None

\* C2. Skip guard: a step called with ordinal i and counter c enters its work
\* exactly when i >= c; when i < c it returns to the main program with the
\* counter, the output, counter.dat, the directories, the files and the
\* record of effects all unchanged.
C2_SkipGuard ==
  [][/\ (pc = "safemd" /\ pc' # "killed") =>
          IF SafemdOrdinal >= op_count
          THEN pc' = "makedirs"
          ELSE /\ pc' = "getfile"
               /\ UNCHANGED <<op_count, out, disk, touched, attempts>>
     /\ (pc = "getfile" /\ pc' # "killed") =>
          IF GetfileOrdinal >= op_count
          THEN pc' = "remove"
          ELSE /\ pc' = "finalize"
               /\ UNCHANGED <<op_count, out, disk, touched, attempts>>]_vars

\* Both steps were skipped by a run that loaded 2.
C2_Witness ==
  /\ pc = "finalize"
  /\ startCount = NSteps
  /\ op_count = NSteps
  /\ touched = {}
  /\ out = <<Msg("resuming")>>

\* C3. Counter equals completed work: in a run that loaded a counter in
\* 0..NSteps, between steps the in-memory counter is the number of steps
\* completed so far, and when the step in front of the position was executed
\* by this run (ordinal i, so i + 1 steps are complete) counter.dat holds i + 1.
C3_CounterEqualsCompleted ==
  (pc \in {"safemd", "getfile", "finalize"} /\ startCount \in 0 .. NSteps) =>
    LET done == StepsBefore(pc)
    IN  /\ op_count = Max(startCount, done)
        /\ (done > startCount) =>
             (HasValue(counterFile) /\ ValueOf(counterFile) = done)

\* The download step was executed by a run resumed at 1, and is complete.
C3_Witness ==
  /\ pc = "finalize"
  /\ startCount = 1
  /\ GetfileOrdinal \in touched
  /\ op_count = 2

\* C4. Exactly once across restarts: from a fresh start, as long as the
\* process was killed only between steps (and no run ended in a fatal exit),
\* no step's work was started more than once, and when a run completes every
\* step's work was started exactly once.
C4_ExactlyOnce ==
  clean =>
    /\ \A i \in Steps : ran[i] <= 1
    /\ Completed => \A i \in Steps : ran[i] = 1

\* The download completed in a run resumed at 1 after a kill between the steps.
C4_Witness ==
  /\ clean
  /\ Completed
  /\ startCount = 1
  /\ \A i \in Steps : ran[i] = 1

\* C5. Interruption keeps the last persisted value: after a kill the next run
\* reads from counter.dat the last integer the file held, never a smaller one.
C5_KillKeepsPersisted ==
  (pc = "killed" /\ persisted.some) =>
    LoadCount(counterFile) >= persisted.val

\* C6. Operation atomicity: inside getfile, before the counter write begins,
\* no action changes counter.dat; when the download step was interrupted there
\* by a kill and a later run reaches the end of the step, the step's work was
\* started again, and if that run executed the step without a failing file
\* operation the files are those one uninterrupted execution leaves from the
\* files the step first found.
C6_DownloadAtomic ==
  /\ [][(InDownload /\ pc' # "upd_write") => counterFile' = counterFile]_vars
  /\ [](  (pc = "finalize" /\ pending.active /\ pending.interrupted # "no") =>
            /\ ran[GetfileOrdinal] >= 2
            /\ (GetfileOrdinal \in touched /\ ~envFail) =>
                 files = ApplyDownload(pending.files0, server))

\* The step was killed after the rename and then executed again to its end.
C6_Witness ==
  /\ pc = "finalize"
  /\ pending.active
  /\ pending.interrupted = "upd_open"
  /\ GetfileOrdinal \in touched
  /\ ~envFail
  /\ DataType(server) # None

\* C7. Finalize only on full completion: after a fatal exit counter.dat exists,
\* and after a completed run it does not.
C7_FinalizeOnlyOnCompletion ==
  /\ (pc = "exited" /\ exitStatus = 1) => counterFile # NoFile
  /\ Completed => counterFile = NoFile

\* C8. Monotonic counter: within a run, the integer counter.dat holds never
\* decreases (persisted is the last integer the file held; while the file is
\* being rewritten it is empty and holds none).
C8_Monotonic ==
  /\ [](HasValue(counterFile) => persisted = Some(ValueOf(counterFile)))
  /\ [][(Running /\ persisted.some /\ persisted'.some) =>
          persisted'.val >= persisted.val]_vars

\* A run that loaded 1 has written 2.
C8_Witness ==
  /\ pc = "finalize"
  /\ startCount = 1
  /\ HasValue(counterFile)
  /\ ValueOf(counterFile) = 2

\* C9. Bounded counter: whatever integer counter.dat held at the start of the
\* run, once the run has loaded it the integer the file holds is at most NSteps.
C9_Bounded ==
  (pc # "load" /\ HasValue(counterFile)) => ValueOf(counterFile) <= NSteps

\* C10. Retry exhaustion: when the retry budget is used up the process exits
\* with status 1 after exactly n_retries attempts, the in-memory counter still
\* admits the step, and counter.dat holds that same counter.
C10_RetryExhaustion ==
  /\ [](attempts <= n_retries_default)
  /\ [][(pc = "loop" /\ attempts = n_retries_default /\ pc' # "killed") =>
          (pc' = "exited" /\ exitStatus' = 1 /\ LastOut' = Msg("Error: cannot download"))]_vars
  /\ []((pc = "exited" /\ LastOut = Msg("Error: cannot download")) =>
          /\ attempts = n_retries_default
          /\ exitStatus = 1
          /\ op_count <= GetfileOrdinal
          /\ HasValue(counterFile)
          /\ ValueOf(counterFile) = op_count)

\* Every attempt failed, one of them after the destination was opened.
C10_Witness ==
  /\ pc = "exited"
  /\ LastOut = Msg("Error: cannot download")
  /\ attempts = n_retries_default
  /\ files[local_file] = PartialFile

\* The file at a path, for any path.
FileAt(p) == IF p \in DOMAIN files THEN files[p] ELSE NoFile

\* The download step was executed by the current run and has returned.
DownloadEnded == GetfileOrdinal \in touched /\ (pc = "finalize" \/ Completed)

\* The lines of a content that begin with ' Data Type'.
MarkerIdx(content) == {i \in DOMAIN content : StartsWith(content[i], MarkerPrefix)}

\* The line carries an alphabetic character at the designator offset.
HasDesignator(line) == Len(line) > DtOffset /\ IsAlpha(line[DtOffset + 1])

\* C11 as the specification words it: whenever the downloaded content has a
\* ' Data Type' line with an alphabetic designator x, then after the download
\* step (no file operation on the download having failed) the file is at the
\* path with x spliced in and no file is at the original path.
C11_RenameOnAnyMarker ==
  (DownloadEnded /\ ~envFail) =>
    \A i \in MarkerIdx(server) :
      HasDesignator(server[i]) =>
        /\ FileAt(NewLocalFile(local_file, server[i][DtOffset + 1])) = FileOf(server)
        /\ FileAt(local_file) = NoFile

\* C11. Rename on marker: when the last ' Data Type' line of the downloaded
\* content has an alphabetic designator x, then after the download step, no
\* read or rename of the file having failed, the file is at the path with the
\* lower-cased x spliced in before the last SuffixLen characters, and no file
\* is at the original path.
C11_RenameOnLastMarker ==
  (DownloadEnded /\ ~envFail /\ MarkerIdx(server) # {}) =>
    LET line == server[CHOOSE i \in MarkerIdx(server) : \A j \in MarkerIdx(server) : j <= i]
    IN  HasDesignator(line) =>
          /\ FileAt(NewLocalFile(local_file, Lower(line[DtOffset + 1]))) = FileOf(server)
          /\ FileAt(local_file) = NoFile

\* A download whose last marker line has the upper-case designator D, after a
\* marker line that has none, was renamed with d.
C11_Witness ==
  /\ DownloadEnded /\ ~envFail
  /\ server = <<MarkerLine("1"), MarkerLine("D")>>
  /\ FileAt(NewLocalFile(local_file, "d")) = FileOf(server)
  /\ FileAt(local_file) = NoFile

NoDataTypeWarning == Msg("Warning: unable to determine data type")

LastMarkerLine(content) ==
  content[CHOOSE i \in MarkerIdx(content) : \A j \in MarkerIdx(content) : j <= i]

\* The downloaded file gives no designator: it is no text, or has no marker
\* line, or the designator of its last marker line is missing or no letter.
NoDesignator(content) ==
  \/ ~Decodable(content)
  \/ MarkerIdx(content) = {}
  \/ ~HasDesignator(LastMarkerLine(content))

RenameWarning == Msg("Warning: unable to rename")

\* C13. Recoverable rename failures: when the downloaded file has no marker
\* line, cannot be read as text or has no alphabetic designator, the step prints
\* the data type warning, leaves the file where it is and goes on to the counter
\* update; when the rename fails it prints the rename warning and goes on
\* likewise; and a step that returned after a warning has advanced the counter
\* by one.
C13_RecoverableRename ==
  /\ [][(pc = "scan" /\ NoDesignator(files[local_file].lines) /\ pc' # "killed") =>
          /\ pc' = "upd_open"
          /\ files' = files
          /\ out' = Append(out, NoDataTypeWarning)]_vars
  /\ [][(pc = "rename" /\ files' = files /\ pc' # "killed") =>
          /\ pc' = "upd_open"
          /\ out' = Append(out, RenameWarning)]_vars
  /\ []((pc = "finalize" /\ GetfileOrdinal \in touched
           /\ LastOut \in {NoDataTypeWarning, RenameWarning}) =>
          /\ files[local_file] = FileOf(server)
          /\ op_count = step.count + 1)

\* C14. Mkdir idempotence: os.makedirs on a folder that exists already (left by
\* an execution that ended before its counter write) raises nothing: the step
\* goes on without message or exit and the directories stay as they are; when
\* such an execution has returned, the target directories exist once and the
\* counter in memory and in counter.dat is one above the one it was entered
\* with.
C14_MkdirIdempotent ==
  /\ [][(pc = "makedirs" /\ folder \in dirs /\ pc' # "killed") =>
          /\ pc' = "upd_open"
          /\ dirs' = dirs
          /\ out' = out
          /\ exitStatus' = exitStatus]_vars
  /\ []((pc = "getfile" /\ SafemdOrdinal \in touched /\ step.had) =>
          /\ dirs = FolderDirs
          /\ op_count = step.count + 1
          /\ HasValue(counterFile)
          /\ ValueOf(counterFile) = op_count)

\* The directory step was executed a second time, on the folder the first
\* execution had created, and has returned.
C14_Witness ==
  /\ pc = "getfile"
  /\ SafemdOrdinal \in touched
  /\ step.had
  /\ ran[SafemdOrdinal] = 2
  /\ runs = 2
  /\ dirs = FolderDirs
  /\ op_count = step.count + 1

MkdirError == Msg("Error: unable to create directory")

\* C15. Mkdir failure is fatal: a failing os.makedirs ends the process at once
\* with a non-zero status and the error message; the step called os.makedirs
\* once and upd_op_co never, the counter in memory is the one the step was
\* entered with and counter.dat still loads as the counter the run loaded; and
\* the directory step reaches its counter update only with the folder present.
C15_MkdirFatal ==
  /\ [][(pc = "makedirs" /\ pc' \notin {"killed", "upd_open"}) =>
          /\ pc' = "exited"
          /\ exitStatus' # 0
          /\ out' = Append(out, MkdirError)
          /\ UNCHANGED <<op_count, disk>>]_vars
  /\ []((pc = "exited" /\ LastOut = MkdirError) =>
          /\ exitStatus = 1
          /\ step.mk = 1
          /\ step.advances = 0
          /\ op_count = step.count
          /\ LoadCount(counterFile) = startCount
          /\ folder \notin dirs)
  /\ []((op_number = SafemdOrdinal /\ pc \in {"upd_open", "upd_write"}) =>
          folder \in dirs)

\* The directory could not be created and the process has ended.
C15_Witness ==
  /\ pc = "exited"
  /\ LastOut = MkdirError
  /\ exitStatus = 1
  /\ step.mk = 1
  /\ step.advances = 0

RemoveError == Msg("Error: unable to remove file")

\* C16. Stale destination removal: an executed download step first removes the
\* file at the destination, going on without message whether or not a file was
\* there, so that no file is at the destination before the first transfer
\* attempt; a removal that fails otherwise (a file is there) ends the process
\* with the error message and status 1, before any transfer attempt, with the
\* counter in memory and counter.dat untouched and upd_op_co not called.
C16_StaleRemoval ==
  /\ [][(pc = "remove" /\ pc' # "killed") =>
          \/ /\ pc' = "opener"
             /\ files' = [files EXCEPT ![local_file] = NoFile]
             /\ out' = out
             /\ exitStatus' = exitStatus
          \/ /\ files[local_file] # NoFile
             /\ pc' = "exited"
             /\ exitStatus' = 1
             /\ out' = Append(out, RemoveError)
             /\ UNCHANGED <<op_count, disk>>]_vars
  /\ []((pc \in {"opener", "loop"} /\ attempts = 0) => files[local_file] = NoFile)
  /\ []((pc = "exited" /\ LastOut = RemoveError) =>
          /\ exitStatus = 1
          /\ attempts = 0
          /\ step.advances = 0
          /\ op_count = step.count)

\* A run removed the partial file an interrupted transfer of an earlier run
\* had left at the destination.
C16_Witness ==
  /\ pc = "opener"
  /\ runs >= 2
  /\ pending.active
  /\ pending.interrupted = "copy"
  /\ files[local_file] = NoFile

DownloadError == Msg("Error: cannot download")

\* C17. No visible partial file: once the download step has ended, by its
\* return or by the fatal exit after the retries are used up, no path holds a
\* file whose transfer did not finish.
C17_NoPartialFile ==
  (DownloadEnded \/ (pc = "exited" /\ LastOut = DownloadError)) =>
    \A p \in Paths : files[p] # PartialFile

\* A step executed by the current run has returned to the main program.
StepReturned ==
  \/ pc = "getfile" /\ SafemdOrdinal \in touched
  \/ pc = "finalize" /\ GetfileOrdinal \in touched

FatalMessages == {MkdirError, RemoveError, DownloadError}

\* C18. Advance exactly once and last: a step execution calls upd_op_co at
\* most once, a step that has returned after doing its work has called it
\* exactly once, after the call the step changes no directory and no file,
\* and a step that ended in a fatal exit has not called it.
C18_AdvanceOnceLast ==
  /\ [](step.advances <= 1)
  /\ [](StepReturned => step.advances = 1)
  /\ [][step.advances >= 1 => UNCHANGED <<dirs, files>>]_vars
  /\ []((pc = "exited" /\ LastOut \in FatalMessages) =>
          /\ step.advances = 0
          /\ op_count = step.count)

\* A download step that renamed its file has returned after one counter write.
C18_Witness ==
  /\ pc = "finalize"
  /\ GetfileOrdinal \in touched
  /\ step.advances = 1
  /\ ~envFail
  /\ DataType(server) # None
  /\ files[NewLocalFile(local_file, DataType(server))] = FileOf(server)
  /\ HasValue(counterFile)
  /\ ValueOf(counterFile) = step.count + 1

CompleteMessage == Msg("100% - data download complete")

\* C19. No exception escapes a step: for every configured proxy address and
\* user name and every content served, a process that ended inside a step
\* ended by sys.exit(1) after one of the step's error messages.
C19_NoEscape ==
  (pc = "exited" /\ LastOut # CompleteMessage) =>
    /\ exitStatus = 1
    /\ LastOut \in FatalMessages

\* C20. Exit codes: a process that ended has status 0 exactly when it executed
\* or skipped (ordinal below the loaded counter) every step, printed the
\* completion line and removed counter.dat; it has status 1 after each of the fatal error
\* messages; and a first run on an empty directory without counter.dat that
\* ended with status 0 and without a failing file operation, the content's
\* data type being m, leaves the directories, the file at the path with m
\* spliced in, no file at the original path and no counter.dat.
C20_ExitCodes ==
  /\ pc = "exited" =>
       /\ exitStatus = 0 <=>
            /\ LastOut = CompleteMessage
            /\ counterFile = NoFile
            /\ \A i \in Steps : i \in touched \/ i < startCount
       /\ LastOut \in FatalMessages => exitStatus = 1
  /\ (Completed /\ runs = 1 /\ clean /\ startCount = 0 /\ ~envFail /\ DataType(server) = "m") =>
       /\ dirs = FolderDirs
       /\ files[NewLocalFile(local_file, "m")] = FileOf(server)
       /\ files[local_file] = NoFile
       /\ counterFile = NoFile

\* The fresh run on a content of data type m has ended with status 0.
C20_Witness ==
  /\ Completed /\ runs = 1 /\ clean /\ startCount = 0 /\ ~envFail
  /\ server = <<OtherLine, MarkerLine("m"), OtherLine>>
  /\ touched = Steps
  /\ files[NewLocalFile(local_file, "m")] = FileOf(server)
  /\ files[local_file] = NoFile
  /\ counterFile = NoFile

\* The integers whose decimal text counter.dat can hold.
CounterValues == (0 - MaxSkew - 1) .. (NSteps + MaxSkew + 1)

\* C21. Load of progress: the load of a counter.dat that holds the decimal
\* text of an integer n gives the counter n; the load of an absent or
\* unreadable counter.dat, or of one whose text is not that of an integer
\* (empty, a letter), gives the counter 0 and prints nothing, as on a fresh
\* start.
C21_LoadOfProgress ==
  [][(pc = "load" /\ pc' # "killed") =>
       IF \E n \in CounterValues : counterFile = TextFile(FormatInt(n))
       THEN \A n \in CounterValues :
              counterFile = TextFile(FormatInt(n)) => op_count' = n
       ELSE op_count' = 0 /\ out' = out]_vars

\* The first run loaded 2 from a counter.dat holding the text 2.
C21_Witness ==
  /\ pc = "safemd"
  /\ runs = 1
  /\ counterFile = TextFile(<<"2">>)
  /\ op_count = 2
  /\ startCount = 2

\* C22. Non-negative counter: whatever counter.dat holds when a run starts,
\* the counter in memory is never negative, and neither is a value the
\* current run wrote to counter.dat.
C22_NonNegative ==
  /\ op_count >= 0
  /\ (touched # {} /\ HasValue(counterFile)) => ValueOf(counterFile) >= 0

\* C23. Lifecycle after completion: a process that completed the sequence
\* leaves no counter.dat; the process started next finds none, loads the counter
\* 0 without the resuming message, and when it has passed both step calls it
\* has executed every step of the sequence again.
C23_LifecycleAfterCompletion ==
  /\ Completed => counterFile = NoFile
  /\ (afterCompletion /\ pc = "load") => counterFile = NoFile
  /\ (afterCompletion /\ pc # "load" /\ pc # "killed") =>
       /\ startCount = 0
       /\ Msg("resuming") \notin Range(out)
  /\ (afterCompletion /\ (pc = "finalize" \/ Completed)) => touched = Steps

\* The run after a completed run has completed as well, executing both steps.
C23_Witness ==
  /\ afterCompletion
  /\ Completed
  /\ runs = 2
  /\ startCount = 0
  /\ touched = Steps
  /\ ran = [i \in Steps |-> 1]

\* C24. Fresh versus resumed logging: when the load has finished the run has
\* printed exactly one start-up message, the resuming message exactly when it
\* resumed from an integer held by counter.dat.
C24_StartupMessage ==
  pc = "safemd" =>
    /\ Len(out) = 1
    /\ (out[1] = Msg("resuming")) <=> LoadResumes(counterFile)

\* C25. Transport configuration: for each combination of proxy address and
\* user name empty or set, the download step builds its opener and goes on to
\* the transfer, and the opener has the proxy handler exactly when a proxy
\* address is set and the authentication handler exactly when a user name is
\* set.
C25_TransportConfiguration ==
  [][(pc = "opener" /\ pc' # "killed") =>
       /\ pc' = "loop"
       /\ ("ProxyHandler" \in opener') <=> (proxy_address # "")
       /\ ("HTTPBasicAuthHandler" \in opener') <=> (gin_username # "")]_vars

\* A transfer attempt of the current getfile execution has succeeded.
TransferDone ==
  \/ pc \in {"scan", "rm_new", "rename"}
  \/ pc \in {"upd_open", "upd_write"} /\ op_number = GetfileOrdinal

\* C26. Retry count: an executed download step starts with the whole budget n
\* it is called with; when its attempt j has succeeded it has made j attempts,
\* j <= n, each failed attempt having taken one from the budget, and it makes
\* no attempt after the success; when it exits with the download error it has
\* made n attempts and none has succeeded (none at all for n <= 0): with
\* n <= 0 the step goes from the loop straight to the fatal exit.
C26_RetryCount ==
  /\ [][(pc = "getfile" /\ pc' = "remove") =>
          (n_retries' = retry_budget /\ attempts' = 0)]_vars
  /\ [](TransferDone =>
          /\ attempts >= 1
          /\ attempts <= retry_budget
          /\ n_retries = retry_budget - (attempts - 1))
  /\ [][TransferDone => attempts' \in {attempts, 0}]_vars
  /\ []((pc = "exited" /\ LastOut = DownloadError) =>
          /\ attempts = Max(retry_budget, 0)
          /\ exitStatus = 1)
  /\ [][(pc = "loop" /\ retry_budget <= 0 /\ pc' # "killed") =>
          /\ pc' = "exited"
          /\ out' = Append(out, DownloadError)
          /\ attempts' = 0]_vars

\* With the budget 2 the first attempt failed and the second has succeeded.
C26_Witness ==
  /\ pc = "scan"
  /\ retry_budget = 2
  /\ attempts = 2
  /\ n_retries = 1
  /\ files[local_file] = FileOf(server)

\* C27. Splice position: for a destination path of at least SuffixLen
\* characters and an alphabetic designator, the renamed path is one character
\* longer than the original, ends with the last SuffixLen characters of the
\* original, begins with the characters of the original in front of them, and
\* has the lower-cased designator between the two.
C27_SplicePosition ==
  (pc = "splice" /\ step # NoStep) =>
    LET old == step.local_file
        new == step.new_local_file
        cut == Len(old) - SuffixLen
    IN  /\ Len(new) = Len(old) + 1
        /\ \A i \in 1 .. cut : new[i] = old[i]
        /\ new[cut + 1] = Lower(step.designator)
        /\ new[cut + 1] \in Range(LowerCase)
        /\ \A i \in (cut + 1) .. Len(old) : new[i + 1] = old[i]

\* The path of the download was spliced with the upper-case designator D.
C27_Witness ==
  /\ pc = "splice"
  /\ step # NoStep
  /\ step.local_file = local_file
  /\ step.designator = "D"
  /\ step.new_local_file =
       folder \o <<"/", "p", "e", "t", "2", "0", "1", "7", "d", "m", "i", "n", ".", "m", "i", "n">>

\* C28. Designator choice with several marker lines: when the downloaded file
\* has more than one ' Data Type' line and is read without error, the scan
\* takes the designator of the last of them, lower-cased, and goes on to the
\* rename; when that line has no character or no letter at the offset, the
\* designator of an earlier line is not used: the scan prints the warning and
\* goes on to the counter update with the file where it is, and the step
\* returns with the file at its original path.
C28_LastMarkerWins ==
  /\ [][(/\ pc = "scan"
         /\ Decodable(files[local_file].lines)
         /\ Cardinality(MarkerIdx(files[local_file].lines)) > 1
         /\ pc' # "killed"
         /\ envFail' = envFail) =>
          IF HasDesignator(LastMarkerLine(files[local_file].lines))
          THEN /\ pc' = "rm_new"
               /\ dt' = Lower(LastMarkerLine(files[local_file].lines)[DtOffset + 1])
               /\ out' = out
          ELSE /\ pc' = "upd_open"
               /\ out' = Append(out, NoDataTypeWarning)
               /\ files' = files]_vars
  /\ []((/\ pc = "finalize"
         /\ GetfileOrdinal \in touched
         /\ Cardinality(MarkerIdx(server)) > 1
         /\ ~HasDesignator(LastMarkerLine(server))) =>
          /\ files[local_file] = FileOf(server)
          /\ LastOut = NoDataTypeWarning)

\* A file with the designator m on its first marker line and 1 on its last
\* was left unrenamed, with the warning.
C28_Witness ==
  /\ pc = "finalize"
  /\ GetfileOrdinal \in touched
  /\ ~envFail
  /\ server = <<MarkerLine("m"), MarkerLine("1")>>
  /\ files[local_file] = FileOf(server)
  /\ files[NewLocalFile(local_file, "m")] = NoFile
  /\ LastOut = NoDataTypeWarning

\* C29. One file per download step: when an executed download step has
\* returned, no read or rename of its file having failed, at most one of its
\* paths (the original destination and the renamed ones) holds a file.
C29_OneFilePerStep ==
  (DownloadEnded /\ ~envFail) => Cardinality({p \in Paths : files[p] # NoFile}) <= 1

\* C30. Eventual completion, in the form a single run decides: a process that
\* was not killed and met none of the fatal conditions (directory creation,
\* removal of the stale file, transfer with the retries used up) has, when it
\* ended, executed or skipped every step, removed counter.dat and ended with
\* status 0. (A process that ends otherwise leaves the disk so that the process
\* started next meets the same end.)
C30_EventualCompletion ==
  (pc = "exited" /\ LastOut \notin FatalMessages) =>
    /\ exitStatus = 0
    /\ counterFile = NoFile
    /\ \A i \in Steps : i \in touched \/ i < startCount

\* The number of program steps a process at a position can still take at most:
\* every step of the program takes the process to a position of lower rank
\* (the retry loop by giving up one retry with each failed attempt).
Rank ==
  LET left == Max(n_retries, 0)
      first == op_number = SafemdOrdinal
  IN  CASE pc = "load"      -> 3 * Max(retry_budget, n_retries_default) + 40
        [] pc = "safemd"    -> 3 * Max(retry_budget, n_retries_default) + 39
        [] pc = "makedirs"  -> 3 * Max(retry_budget, n_retries_default) + 38
        [] pc = "upd_open"  -> IF first THEN 3 * Max(retry_budget, n_retries_default) + 37 ELSE 3
        [] pc = "upd_write" -> IF first THEN 3 * Max(retry_budget, n_retries_default) + 36 ELSE 2
        [] pc = "getfile"   -> 3 * Max(retry_budget, n_retries_default) + 35
        [] pc = "remove"    -> 3 * Max(retry_budget, n_retries_default) + 34
        [] pc = "opener"    -> 3 * Max(retry_budget, n_retries_default) + 33
        [] pc = "loop"      -> 3 * left + 9
        [] pc = "fopen"     -> 3 * left + 8
        [] pc = "copy"      -> 3 * left + 7
        [] pc = "scan"      -> 6
        [] pc = "rm_new"    -> 5
        [] pc = "rename"    -> 4
        [] pc = "finalize"  -> 1
        [] OTHER            -> 0

\* C31. Run termination: every step a process takes brings it nearer to its
\* end (so a process whose calls all return ends after finitely many steps),
\* the retry loop never makes more attempts than the budget n_retries, and a
\* process that has ended is in the completed state or in a fatal exit with
\* status 1 and one of the error messages.
C31_RunTermination ==
  /\ [][(Running /\ pc' # "killed") => (Rank' < Rank /\ Rank' >= 0)]_vars
  /\ [](attempts <= Max(retry_budget, 0))
  /\ [](pc = "exited" => (Completed \/ (exitStatus = 1 /\ LastOut \in FatalMessages)))

(* ------------------------------------------------------------------ *)
(* petki.py: the classes of geomagnetic activity                       *)
(* ------------------------------------------------------------------ *)

\* The largest K-index value of the rows drawn for the table.
MaxK == 9

\* range(1,9) of lines 24, 30, 37, 44, 51, 58, 65 and 71: the eight columns
\* `1` .. `8` of the table.
Columns == 1 .. (9 - 1)

\* The keys of K_DATA in the order lines 77-81 set them.
Classes == <<"quiet", "low", "medium", "storm", "heavy_storm">>

\* The download script has not run and is not running.
NoDownload ==
  /\ exitStatus = 0
  /\ op_count = 0
  /\ op_number = SafemdOrdinal
  /\ n_retries = n_retries_default
  /\ dt = None
  /\ out = <<>>
  /\ counterFile = NoFile
  /\ dirs = {}
  /\ files = NoFiles
  /\ server = <<OtherLine>>
  /\ runs = 1
  /\ proxy_address = ""
  /\ gin_username = ""
  /\ retry_budget = n_retries_default
  /\ opener = NoOpener
  /\ startCount = 0
  /\ startOK = FALSE
  /\ touched = {}
  /\ attempts = 0
  /\ envFail = FALSE
  /\ ran = [i \in Steps |-> 0]
  /\ clean = TRUE
  /\ persisted = Nothing
  /\ pending = NoPending
  /\ afterCompletion = FALSE
  /\ step = NoStep

\* Lines 22-26: every column is in 0..2.
q_q(k) == \A i \in Columns : 0 <= k[i] /\ k[i] <= 2

\* A variant of l_q without its second half (lines 34-39).
l_q_loose(k) == \A i \in Columns : 0 <= k[i] /\ k[i] <= 3

\* Lines 28-39: every column is in 0..3 and some column is 3.
l_q(k) ==
  /\ \A i \in Columns : 0 <= k[i] /\ k[i] <= 3
  /\ \E i \in Columns : k[i] = 3

\* Lines 42-53: every column is in 0..4 and some column is 4.
m_q(k) ==
  /\ \A i \in Columns : 0 <= k[i] /\ k[i] <= 4
  /\ \E i \in Columns : k[i] = 4

\* Lines 56-67: every column is in 0..5 and some column is in 5..6.
st_q(k) ==
  /\ \A i \in Columns : 0 <= k[i] /\ k[i] <= 5
  /\ \E i \in Columns : 5 <= k[i] /\ k[i] <= 6

\* Lines 69-73: some column is 7 or more.
h_st_q(k) == \E i \in Columns : 7 <= k[i]

\* The query lines 77-81 run for a key of K_DATA.
ClassQuery(c, k) ==
  CASE c = "quiet" -> q_q(k)
    [] c = "low" -> l_q(k)
    [] c = "medium" -> m_q(k)
    [] c = "storm" -> st_q(k)
    [] c = "heavy_storm" -> h_st_q(k)

\* DataFrame.query: the rows the expression holds for, in the table's order.
query(table, c) ==
  LET Holds(row) == ClassQuery(c, row.k) IN SelectSeq(table, Holds)

\* The month abbreviations %b reads.
MonthNames == <<"Jan", "Feb", "Mar", "Apr", "May", "Jun",
                "Jul", "Aug", "Sep", "Oct", "Nov", "Dec">>

\* Line 75: pd.to_datetime with format %d-%b-%y of a DA-MON-YR text; %y reads
\* 00..68 as 2000..2068 and 69..99 as 1969..1999.
to_datetime(text) ==
  [year |-> IF text.yr < 69 THEN 2000 + text.yr ELSE 1900 + text.yr,
   month |-> CHOOSE m \in DOMAIN MonthNames : MonthNames[m] = text.mon,
   day |-> text.da]

\* The rows of Columns values in lo..MaxK that never decrease.
RECURSIVE NonDecreasing(_, _)
NonDecreasing(n, lo) ==
  IF n = 0 THEN {<<>>}
  ELSE UNION {{<<v>> \o r : r \in NonDecreasing(n - 1, v)} : v \in lo .. MaxK}

Reverse(r) == [i \in 1 .. Len(r) |-> r[Len(r) + 1 - i]]

\* The K-index rows drawn: every multiset of eight values in 0..MaxK, in
\* rising and in falling order (the queries treat all columns alike).
KRows ==
  LET rising == NonDecreasing(Cardinality(Columns), 0)
  IN rising \cup {Reverse(r) : r \in rising}

\* The row of a day whose eight values are all v.
Level(v) == [i \in Columns |-> v]

FirstDay == [da |-> 1, mon |-> "Jan", yr |-> 17]

SecondDay == [da |-> 31, mon |-> "Dec", yr |-> 99]

\* The contents of k-index.txt drawn: one day with any row, or two days with
\* level rows.  Every day has its own date.
KTables ==
  {<<[date |-> FirstDay, k |-> r]>> : r \in KRows}
    \cup {<<[date |-> FirstDay, k |-> Level(a)], [date |-> SecondDay, k |-> Level(b)]>> :
            a \in 0 .. MaxK, b \in 0 .. MaxK}

InitK ==
  /\ pc = "read_csv"
  /\ NoDownload
  /\ AnalysisIdle

\* Lines 14 and 17: the table is read and K_DATA is the empty dict.
ReadCsv ==
  /\ pc = "read_csv"
  /\ \E table \in KTables : k_index_table' = table
  /\ K_DATA' = <<>>
  /\ pc' = "to_datetime"
  /\ UNCHANGED <<exitStatus, op_count, op_number, n_retries, dt, out, dates, signal, dwt_return>>
  /\ UNCHANGED <<disk, server, runs, proxy_address, gin_username, retry_budget, opener, hist>>

\* Line 75: the date column becomes datetimes.
ToDatetime ==
  /\ pc = "to_datetime"
  /\ k_index_table' = [i \in DOMAIN k_index_table |->
                         [k_index_table[i] EXCEPT !.date = to_datetime(@)]]
  /\ pc' = "query"
  /\ UNCHANGED <<exitStatus, op_count, op_number, n_retries, dt, out, K_DATA, dates, signal,
                 dwt_return>>
  /\ UNCHANGED <<disk, server, runs, proxy_address, gin_username, retry_budget, opener, hist>>

\* Lines 77-81: the five queries fill K_DATA.
Query ==
  /\ pc = "query"
  /\ K_DATA' = [c \in {Classes[i] : i \in DOMAIN Classes} |-> query(k_index_table, c)]
  /\ pc' = "str_dates"
  /\ UNCHANGED <<exitStatus, op_count, op_number, n_retries, dt, out, k_index_table, dates,
                 signal, dwt_return>>
  /\ UNCHANGED <<disk, server, runs, proxy_address, gin_username, retry_budget, opener, hist>>

\* Lines 83-91: the dates of the rows of every class, as lists.
Dates ==
  /\ pc = "str_dates"
  /\ dates' = [d \in DOMAIN K_DATA |-> [i \in DOMAIN K_DATA[d] |-> K_DATA[d][i].date]]
  /\ pc' = "petki_done"
  /\ UNCHANGED <<exitStatus, op_count, op_number, n_retries, dt, out, k_index_table, K_DATA,
                 signal, dwt_return>>
  /\ UNCHANGED <<disk, server, runs, proxy_address, gin_username, retry_budget, opener, hist>>

NextK == ReadCsv \/ ToDatetime \/ Query \/ Dates

SpecK == InitK /\ [][NextK]_vars

\* The keys of K_DATA whose query selected the row.
ClassesOf(row) == {c \in DOMAIN K_DATA : \E j \in DOMAIN K_DATA[c] : K_DATA[c][j] = row}

\* The largest of the eight values of a row.
RowMax(k) == CHOOSE v \in {k[i] : i \in Columns} : \A i \in Columns : k[i] <= v

\* The dates listed for a class.
DatesOf(c) == {dates[c][j] : j \in DOMAIN dates[c]}

\* C32: the classes are exhaustive: once the script has run, every row of the
\* table is selected by at least one of the five class queries, and a row
\* whose largest value is 6 is selected by the storm class.
C32_Exhaustive ==
  pc = "petki_done" =>
    \A i \in DOMAIN k_index_table :
      /\ ClassesOf(k_index_table[i]) # {}
      /\ (RowMax(k_index_table[i].k) = 6 => "storm" \in ClassesOf(k_index_table[i]))

\* C34: the classes are mutually exclusive: once the script has run, at most
\* one of the five class queries has selected any row of the table, and no
\* date is listed for two classes (every row of the table has its own date).
C34_Exclusive ==
  pc = "petki_done" =>
    /\ \A i \in DOMAIN k_index_table : Cardinality(ClassesOf(k_index_table[i])) <= 1
    /\ \A c \in DOMAIN dates, d \in DOMAIN dates : c # d => DatesOf(c) \cap DatesOf(d) = {}

\* Two days were read; the first was selected by the quiet class alone and the
\* second by the storm class alone, and each date is listed for its class.
C34_Witness ==
  /\ pc = "petki_done"
  /\ Len(k_index_table) = 2
  /\ ClassesOf(k_index_table[1]) = {"quiet"}
  /\ ClassesOf(k_index_table[2]) = {"storm"}
  /\ DatesOf("quiet") = {to_datetime(FirstDay)}
  /\ DatesOf("storm") = {to_datetime(SecondDay)}

(* ------------------------------------------------------------------ *)
(* wt.py: the wavelet filter bank                                      *)
(* ------------------------------------------------------------------ *)

\* The longest signal given to dwt.
MaxSignalLen == 7

\* The shortest signal given to dwt: the mirrors take four samples.
MinSignalLen == 4

\* The sample values of the signals given to dwt.
Samples == (0 - 1) .. 1

\* Lines 16 and 18: the db3 decomposition filters, in millionths.
low == <<35226, 0 - 85441, 0 - 135010, 459880, 806890, 332670>>

high == <<0 - 332670, 806890, 0 - 459880, 0 - 135010, 85441, 35226>>

\* list[i] of Python for an index from 0 that is in range.
At(list, i) == list[i + 1]

\* list[i] of Python raises IndexError (indices from 0, none negative here).
OutOfRange(list, i) == i < 0 \/ i >= Len(list)

\* list[:stop] for stop >= 0.
SliceTo(list, stop) == SubSeq(list, 1, IF stop < Len(list) THEN stop ELSE Len(list))

\* list[start::]: a negative start counts from the end and is clipped at 0.
SliceFrom(list, start) ==
  LET from == IF start >= 0 THEN start
              ELSE IF Len(list) + start >= 0 THEN Len(list) + start ELSE 0
  IN SubSeq(list, from + 1, Len(list))

\* Line 25: the first four samples, reversed.
s_mirror_start(sig) == Reverse(SliceTo(sig, 4))

\* Line 26: the last four samples, reversed.
s_mirror_end(sig) == Reverse(SliceFrom(sig, Len(sig) - 4))

\* Line 28: the signal between its mirrors.
Mirrored(sig) == s_mirror_start(sig) \o sig \o s_mirror_end(sig)

\* Line 30: the length of A and of D.
OutLen(sig) == Len(Mirrored(sig)) - Len(s_mirror_start(sig))

\* Line 33: range(0, len(signal) - len(low) + 1, 2) over the mirrored signal.
FilterRange(sig) == {i \in 0 .. (Len(Mirrored(sig)) - Len(low)) : i % 2 = 0}

\* Lines 34-36 for one i and one filter: the sum over j = 0 .. n - 1 of
\* signal[i+j] * filter[len(filter) - 1 - j], added to the initial 0.
RECURSIVE Window(_, _, _, _)
Window(ext, filter, i, n) ==
  IF n = 0 THEN 0
  ELSE Window(ext, filter, i, n - 1)
         + At(ext, i + n - 1) * At(filter, Len(filter) - 1 - (n - 1))

\* Lines 33-36 index a list out of its range.
IndexError(sig) ==
  \E i \in FilterRange(sig), j \in 0 .. (Len(low) - 1) :
    \/ i >= OutLen(sig)
    \/ OutOfRange(Mirrored(sig), i + j)
    \/ OutOfRange(low, Len(low) - 1 - j)
    \/ OutOfRange(high, Len(high) - 1 - j)

\* A (or D) after the loop of lines 33-36, for the filter low (or high).
Filtered(sig, filter) ==
  [p \in 1 .. OutLen(sig) |->
     IF p - 1 \in FilterRange(sig) THEN Window(Mirrored(sig), filter, p - 1, Len(low)) ELSE 0]

\* list[::2].
EveryOther(list) == [q \in 1 .. ((Len(list) + 1) \div 2) |-> At(list, 2 * (q - 1))]

\* Lines 22-38.  Beside the two returned lists, the positions (from 0) of the
\* returned lists that the loop of lines 33-36 assigned.
dwt(sig) ==
  IF IndexError(sig) THEN [raised |-> "IndexError"]
  ELSE [raised |-> "",
        A |-> EveryOther(Filtered(sig, low)),
        D |-> EveryOther(Filtered(sig, high)),
        assigned |-> {q \in 0 .. (((OutLen(sig) + 1) \div 2) - 1) : 2 * q \in FilterRange(sig)}]

RECURSIVE SignalsOf(_)
SignalsOf(n) ==
  IF n = 0 THEN {<<>>}
  ELSE {r \o <<v>> : r \in SignalsOf(n - 1), v \in Samples}

Signals == UNION {SignalsOf(n) : n \in MinSignalLen .. MaxSignalLen}

InitDwt ==
  /\ pc = "dwt"
  /\ NoDownload
  /\ k_index_table = NoTable
  /\ K_DATA = NoData
  /\ dates = NoData
  /\ signal \in Signals
  /\ dwt_return = NoData

\* A call of dwt with the filters of lines 16 and 18.
Dwt ==
  /\ pc = "dwt"
  /\ dwt_return' = dwt(signal)
  /\ pc' = "dwt_done"
  /\ UNCHANGED <<exitStatus, op_count, op_number, n_retries, dt, out, k_index_table, K_DATA,
                 dates, signal>>
  /\ UNCHANGED <<disk, server, runs, proxy_address, gin_username, retry_budget, opener, hist>>

SpecDwt == InitDwt /\ [][Dwt]_vars

\* C33: every returned coefficient is computed: after a call of dwt with a
\* signal of four or more samples no list was indexed out of range, the two
\* returned lists have equal length, and every position of the returned lists
\* was assigned by the filter loop over a full window.
C33_AllComputed ==
  (pc = "dwt_done" /\ Len(signal) >= MinSignalLen) =>
    /\ dwt_return.raised = ""
    /\ Len(dwt_return.A) = Len(dwt_return.D)
    /\ dwt_return.assigned = 0 .. (Len(dwt_return.A) - 1)

====
